---- MODULE Spec2Model ----
(***************************************************************************)
(* PitchPerfect: the voice-first interview turn-taking and audio pipeline. *)
(*                                                                         *)
(* The model follows the React components ChatInterface / InterviewPage    *)
(* (src/src/pages/InterviewPage.tsx), ChatInput                            *)
(* (src/src/components/ChatInput.tsx) and ReportPage                       *)
(* (src/src/pages/ReportPage.tsx).  A handler that runs between two awaits *)
(* is one atomic action; what an async handler reads after an await is the *)
(* value captured by the closure of the render in which it was called, so  *)
(* every task in flight carries the values its closure captured.           *)
(***************************************************************************)
EXTENDS Integers, Sequences, FiniteSets, TLC

\* ---------------------------------------------------------------- bounds
MaxTurns == 4          \* turns the transcript may hold before the user stops submitting
MaxCompletions == 2    \* times the engine answers interviewComplete: true
MaxRecordings == 2     \* clicks on Record
MaxTime == 2           \* seconds after which the model stops counting time
MaxChunks == 2         \* non-empty chunks a recorder delivers
ChunkSize == 512       \* bytes of one non-empty chunk

\* --------------------------------------------------------- program constants
MinBytes == 1024       \* audioBlob.size < 1024 is rejected
MinSeconds == 1        \* recordingTime < 1 is rejected
MinStopSeconds == 2    \* canStopRecording = recordingTime >= 2

\* ------------------------------------------------------------- vocabulary
Stages == <<"start", "technical", "behavioral", "situational", "closing">>

StageSet == {Stages[i] : i \in 1..Len(Stages)}

StageIdx(s) == CHOOSE i \in 1..Len(Stages) : Stages[i] = s

NoStage == "none"

\* what the candidate can have in the input box
Inputs == {"answer", " "}

\* the question text of a dialogue response
Questions == {"question"}

\* the value of data.interview.question when the result has no question field
Undefined == "undefined"

\* how a fetch of the interview-engine can fail
EngineFailures == {"network", "http429", "http500", "unsuccessful"}

Trim(s) == IF s = " " THEN "" ELSE s

Message(role, content) == [role |-> role, content |-> content]

VARIABLES
    \* ChatInterface state (InterviewPage.tsx:297-309)
    messages, currentMessage, isLoading, interviewStage, error,
    isAudioEnabled, isSpeaking, currentAudio, audioQueue, isProcessingAudio,
    \* tasks in flight
    engineReqs,     \* interview-engine requests awaiting their response
    plays,          \* playInterviewerResponse calls: id -> [text, phase]
    completions,    \* completeInterview timers and calls: id -> [phase, msgs, report]
    scheduled,      \* number of completion timers started so far
    \* InterviewPage / router
    interviewId, view, completeCalls, persisted,
    \* ReportPage state
    reportPage,
    \* ChatInput state (ChatInput.tsx:32-38)
    isRecording, isTranscribing, recordingError, mediaRecorder, recordingTime,
    recordingTimerRef, streamRef,
    \* microphone, recorders and ChatInput tasks in flight
    micRequests, streams, timers, recorders, transcriptions, recordClicks

ctlVars == <<messages, currentMessage, isLoading, interviewStage, error>>

audioVars == <<isAudioEnabled, isSpeaking, currentAudio, audioQueue, isProcessingAudio, plays>>

doneVars == <<completions, scheduled, view, completeCalls, persisted, reportPage>>

vars == <<messages, currentMessage, isLoading, interviewStage, error,
          isAudioEnabled, isSpeaking, currentAudio, audioQueue, isProcessingAudio,
          engineReqs, plays, completions, scheduled,
          interviewId, view, completeCalls, persisted, reportPage,
          isRecording, isTranscribing, recordingError, mediaRecorder, recordingTime,
          recordingTimerRef, streamRef,
          micRequests, streams, timers, recorders, transcriptions, recordClicks>>

inputVars == <<isRecording, isTranscribing, recordingError, mediaRecorder, recordingTime,
               recordingTimerRef, streamRef,
               micRequests, streams, timers, recorders, transcriptions, recordClicks>>

NoAudio == 0

Mounted == view = "interview"

\* ------------------------------------------------------------ audio queue
Slice1(q) == IF Len(q) = 0 THEN q ELSE Tail(q)

\* The effect of InterviewPage.tsx:328-332 together with processNextAudio and the
\* synchronous head of playInterviewerResponse: an item whose text is blank is
\* dropped at once (the early return, then the finally block), the first other
\* item starts a text-to-speech request.
ShouldProcessIgnoringBusy(q, proc, en) == Len(q) > 0 /\ en

\* the condition under which the effect calls processNextAudio and the call
\* goes on (InterviewPage.tsx:329, 335)
ShouldProcess(q, proc, en) == Len(q) > 0 /\ ~proc /\ en

\* playInterviewerResponse ends before it sets isSpeaking: for a blank text by
\* its early return, for undefined because text.trim() throws
\* (InterviewPage.tsx:351)
Unspeakable(text) == text = Undefined \/ Trim(text) = ""

RECURSIVE QueueEffect(_, _, _, _)
QueueEffect(q, proc, en, spk) ==
    IF ShouldProcess(q, proc, en)
    THEN IF Unspeakable(Head(q))
         THEN QueueEffect(Tail(q), FALSE, en, spk)
         ELSE [queue |-> q, proc |-> TRUE, spk |-> TRUE, start |-> <<Head(q)>>]
    ELSE [queue |-> q, proc |-> proc, spk |-> spk, start |-> <<>>]

FreshPlay(pl, cur) == CHOOSE i \in 1..(Cardinality(DOMAIN pl) + 2) : i \notin DOMAIN pl /\ i # cur

AddPlay(pl, cur, text) ==
    LET id == FreshPlay(pl, cur)
    IN  [i \in DOMAIN pl \cup {id} |-> IF i = id THEN [text |-> text, phase |-> "tts"] ELSE pl[i]]

DropPlay(pl, id) == [i \in DOMAIN pl \ {id} |-> pl[i]]

\* The render that follows a state change of a mounted ChatInterface: the new
\* audio state is committed and the queue effect runs on it.  State updates of
\* an unmounted component are dropped and its effects do not run.
CommitAudio(q, proc, en, spk, cur, pl) ==
    IF Mounted
    THEN LET e == QueueEffect(q, proc, en, spk)
         IN  /\ audioQueue' = e.queue
             /\ isProcessingAudio' = e.proc
             /\ isAudioEnabled' = en
             /\ isSpeaking' = e.spk
             /\ currentAudio' = cur
             /\ plays' = IF e.start # <<>> THEN AddPlay(pl, cur, e.start[1]) ELSE pl
    ELSE /\ UNCHANGED <<audioQueue, isProcessingAudio, isAudioEnabled, isSpeaking, currentAudio>>
         /\ plays' = pl

Playing == {i \in DOMAIN plays : plays[i].phase = "playing"}

\* ------------------------------------------------------- playback of speech
\* text-to-speech answered and audio.play() started (InterviewPage.tsx:376-398)
TtsOk(t) ==
    /\ t \in DOMAIN plays /\ plays[t].phase = "tts"
    /\ CommitAudio(audioQueue, isProcessingAudio, isAudioEnabled, isSpeaking, t,
                   [plays EXCEPT ![t].phase = "playing"])
    /\ UNCHANGED <<ctlVars, engineReqs, doneVars, interviewId, inputVars>>

\* text-to-speech answered and audio.play() was rejected: the promise of
\* playInterviewerResponse rejects, processNextAudio's finally block runs
\* (InterviewPage.tsx:398, 342-347)
TtsOkPlayRejected(t) ==
    /\ t \in DOMAIN plays /\ plays[t].phase = "tts"
    /\ CommitAudio(Slice1(audioQueue), FALSE, isAudioEnabled, isSpeaking, t, DropPlay(plays, t))
    /\ UNCHANGED <<ctlVars, engineReqs, doneVars, interviewId, inputVars>>

\* the text-to-speech request failed: the catch block, then the finally block
\* of processNextAudio (InterviewPage.tsx:372-374, 401-412, 344-347)
TtsFail(t) ==
    /\ t \in DOMAIN plays /\ plays[t].phase = "tts"
    /\ CommitAudio(Slice1(audioQueue), FALSE, isAudioEnabled, FALSE, NoAudio, DropPlay(plays, t))
    /\ UNCHANGED <<ctlVars, engineReqs, doneVars, interviewId, inputVars>>

\* audio.onended (InterviewPage.tsx:383-388), then the finally block
AudioEnded(t) ==
    /\ t \in DOMAIN plays /\ plays[t].phase = "playing"
    /\ CommitAudio(Slice1(audioQueue), FALSE, isAudioEnabled, FALSE, NoAudio, DropPlay(plays, t))
    /\ UNCHANGED <<ctlVars, engineReqs, doneVars, interviewId, inputVars>>

\* audio.onerror (InterviewPage.tsx:390-396), then the catch and finally blocks
AudioError(t) ==
    /\ t \in DOMAIN plays /\ plays[t].phase = "playing"
    /\ CommitAudio(Slice1(audioQueue), FALSE, isAudioEnabled, FALSE, NoAudio, DropPlay(plays, t))
    /\ UNCHANGED <<ctlVars, engineReqs, doneVars, interviewId, inputVars>>

\* the state stopCurrentAudio leaves (InterviewPage.tsx:415-425): the current
\* audio element is paused, a paused element never ends
StopState ==
    [spk |-> IF currentAudio # NoAudio THEN FALSE ELSE isSpeaking,
     pl |-> IF currentAudio \in DOMAIN plays THEN DropPlay(plays, currentAudio) ELSE plays,
     queue |-> <<>>,
     proc |-> FALSE]

\* the stop button, rendered while isSpeaking (InterviewPage.tsx:742-751)
StopCurrentAudio ==
    /\ Mounted /\ isSpeaking
    /\ CommitAudio(StopState.queue, StopState.proc, isAudioEnabled, StopState.spk, NoAudio, StopState.pl)
    /\ UNCHANGED <<ctlVars, engineReqs, doneVars, interviewId, inputVars>>

\* the audio button (InterviewPage.tsx:427-432, 730-741)
ToggleAudio ==
    /\ Mounted
    /\ IF isAudioEnabled
       THEN CommitAudio(StopState.queue, StopState.proc, FALSE, StopState.spk, NoAudio, StopState.pl)
       ELSE CommitAudio(audioQueue, isProcessingAudio, TRUE, isSpeaking, currentAudio, plays)
    /\ UNCHANGED <<ctlVars, engineReqs, doneVars, interviewId, inputVars>>

\* ------------------------------------------------------ dialogue engine calls
\* the message the catch blocks show (InterviewPage.tsx:480-487, 575-584)
ErrorText(kind, f) ==
    IF f = "network" THEN "Network error"
    ELSE IF f = "http429" /\ kind = "send" THEN "Too many requests"
    ELSE IF f = "http500" THEN "Server error"
    ELSE IF kind = "start" THEN "Failed to start the interview"
    ELSE "Sorry, an error occurred"

\* a state update of ChatInterface: dropped once the component is unmounted
Upd(new, old) == IF Mounted THEN new ELSE old

\* startInterview, catch and finally (InterviewPage.tsx:452-460, 477-493)
StartInterviewFail(r, f) ==
    /\ r \in engineReqs /\ r.kind = "start"
    /\ engineReqs' = engineReqs \ {r}
    /\ error' = Upd(ErrorText("start", f), error)
    /\ isLoading' = Upd(FALSE, isLoading)
    /\ UNCHANGED <<messages, currentMessage, interviewStage, audioVars, doneVars, interviewId, inputVars>>

\* startInterview, success: true without an interview (InterviewPage.tsx:462, 491-493)
StartInterviewNoInterview(r) ==
    /\ r \in engineReqs /\ r.kind = "start"
    /\ engineReqs' = engineReqs \ {r}
    /\ isLoading' = Upd(FALSE, isLoading)
    /\ UNCHANGED <<messages, currentMessage, interviewStage, error, audioVars, doneVars, interviewId, inputVars>>

\* startInterview, the engine answered with a question (InterviewPage.tsx:462-476, 491-493)
StartInterviewOk(r, q) ==
    /\ r \in engineReqs /\ r.kind = "start"
    /\ engineReqs' = engineReqs \ {r}
    /\ messages' = Upd(<<Message("interviewer", q)>>, messages)
    /\ isLoading' = Upd(FALSE, isLoading)
    /\ CommitAudio(IF r.audio THEN <<q>> ELSE audioQueue,
                   isProcessingAudio, isAudioEnabled, isSpeaking, currentAudio, plays)
    /\ UNCHANGED <<currentMessage, interviewStage, error, doneVars, interviewId, inputVars>>

TextareaEnabledWhileSpeaking == ~(isLoading \/ isTranscribing)

\* the text area accepts typing (ChatInput.tsx:476-484)
TextareaEnabled == ~(isSpeaking \/ (isLoading \/ isSpeaking) \/ isTranscribing)

\* the send button accepts a click (ChatInput.tsx:487-490)
SendEnabled ==
    ~(Trim(currentMessage) = "" \/ (isLoading \/ isSpeaking) \/ isTranscribing \/ isSpeaking)

\* onChange of the text area (ChatInput.tsx:479)
SetInput(text) ==
    /\ Mounted /\ TextareaEnabled
    /\ text # currentMessage
    /\ currentMessage' = text
    /\ UNCHANGED <<messages, isLoading, interviewStage, error, audioVars, engineReqs,
                   doneVars, interviewId, inputVars>>

\* the guard of sendMessage (InterviewPage.tsx:498)
SendGuard == Trim(currentMessage) # "" /\ ~isLoading

SubmitWithoutAppend ==
    /\ Mounted
    /\ SendEnabled \/ TextareaEnabled
    /\ SendGuard
    /\ Len(messages) < MaxTurns
    /\ currentMessage' = ""
    /\ isLoading' = TRUE
    /\ error' = ""
    /\ engineReqs' = engineReqs \cup
          {[kind |-> "send", msgs |-> messages, text |-> currentMessage,
            audio |-> isAudioEnabled, stage |-> interviewStage,
            history |-> Append(messages, Message("candidate", currentMessage))]}
    /\ UNCHANGED <<messages, interviewStage, audioVars, doneVars, interviewId, inputVars>>

SubmitWithoutLoading ==
    /\ Mounted
    /\ SendEnabled \/ TextareaEnabled
    /\ SendGuard
    /\ Len(messages) < MaxTurns
    /\ messages' = Append(messages, Message("candidate", currentMessage))
    /\ currentMessage' = ""
    /\ error' = ""
    /\ engineReqs' = engineReqs \cup
          {[kind |-> "send", msgs |-> messages, text |-> currentMessage,
            audio |-> isAudioEnabled, stage |-> interviewStage,
            history |-> Append(messages, Message("candidate", currentMessage))]}
    /\ UNCHANGED <<isLoading, interviewStage, audioVars, doneVars, interviewId, inputVars>>

SubmitHistoryWithoutCandidate ==
    /\ Mounted
    /\ SendEnabled \/ TextareaEnabled
    /\ SendGuard
    /\ Len(messages) < MaxTurns
    /\ messages' = Append(messages, Message("candidate", currentMessage))
    /\ currentMessage' = ""
    /\ isLoading' = TRUE
    /\ error' = ""
    /\ engineReqs' = engineReqs \cup
          {[kind |-> "send", msgs |-> messages, text |-> currentMessage,
            audio |-> isAudioEnabled, stage |-> interviewStage, history |-> messages]}
    /\ UNCHANGED <<interviewStage, audioVars, doneVars, interviewId, inputVars>>

\* sendMessage up to its fetch, called by the send button or the Enter key; the
\* request carries conversationHistory = [...messages, candidateMessage]
\* (InterviewPage.tsx:496-532; ChatInput.tsx:40-45, 487-490)
Submit ==
    /\ Mounted
    /\ SendEnabled \/ TextareaEnabled
    /\ SendGuard
    /\ Len(messages) < MaxTurns
    /\ messages' = Append(messages, Message("candidate", currentMessage))
    /\ currentMessage' = ""
    /\ isLoading' = TRUE
    /\ error' = ""
    /\ engineReqs' = engineReqs \cup
          {[kind |-> "send", msgs |-> messages, text |-> currentMessage,
            audio |-> isAudioEnabled, stage |-> interviewStage,
            history |-> Append(messages, Message("candidate", currentMessage))]}
    /\ UNCHANGED <<interviewStage, audioVars, doneVars, interviewId, inputVars>>

\* sendMessage, catch and finally (InterviewPage.tsx:534-542, 572-590)
SendMessageFail(r, f) ==
    /\ r \in engineReqs /\ r.kind = "send"
    /\ engineReqs' = engineReqs \ {r}
    /\ error' = Upd(ErrorText("send", f), error)
    /\ isLoading' = Upd(FALSE, isLoading)
    /\ UNCHANGED <<messages, currentMessage, interviewStage, audioVars, doneVars, interviewId, inputVars>>

\* sendMessage, success: true without an interview (InterviewPage.tsx:544, 588-590)
SendMessageNoInterview(r) ==
    /\ r \in engineReqs /\ r.kind = "send"
    /\ engineReqs' = engineReqs \ {r}
    /\ isLoading' = Upd(FALSE, isLoading)
    /\ UNCHANGED <<messages, currentMessage, interviewStage, error, audioVars, doneVars, interviewId, inputVars>>

FreshCompletion == CHOOSE i \in 1..(Cardinality(DOMAIN completions) + 1) : i \notin DOMAIN completions

\* setTimeout(() => completeInterview(), 2000) in the closure of the render
\* that called sendMessage (InterviewPage.tsx:566-570)
ScheduleCompletion(r) ==
    [i \in DOMAIN completions \cup {FreshCompletion} |->
        IF i = FreshCompletion THEN [phase |-> "timer", msgs |-> r.msgs] ELSE completions[i]]

\* the stage after a response that names nextStage (InterviewPage.tsx:560-563)
NextStageOf(stage, ns) == IF ns # NoStage THEN ns ELSE stage

\* sendMessage, the engine answered with a question (InterviewPage.tsx:544-571, 588-590)
SendMessageOk(r, q, ns, ic) ==
    /\ r \in engineReqs /\ r.kind = "send"
    /\ ic => scheduled < MaxCompletions
    /\ engineReqs' = engineReqs \ {r}
    /\ messages' = Upd(Append(messages, Message("interviewer", q)), messages)
    /\ CommitAudio(IF r.audio THEN Append(audioQueue, q) ELSE audioQueue,
                   isProcessingAudio, isAudioEnabled, isSpeaking, currentAudio, plays)
    /\ interviewStage' = Upd(NextStageOf(interviewStage, ns), interviewStage)
    /\ completions' = IF ic THEN ScheduleCompletion(r) ELSE completions
    /\ scheduled' = IF ic THEN scheduled + 1 ELSE scheduled
    /\ isLoading' = Upd(FALSE, isLoading)
    /\ UNCHANGED <<currentMessage, error, view, completeCalls, persisted, reportPage,
                   interviewId, inputVars>>

FirstCandidate ==
    LET idx == {i \in 1..Len(messages) : messages[i].role = "candidate"}
    IN  IF idx = {} THEN <<>> ELSE <<messages[CHOOSE i \in idx : \A j \in idx : i <= j].content>>

\* the Retry button of the error alert (InterviewPage.tsx:692-700, 765-781)
LastCandidate ==
    LET idx == {i \in 1..Len(messages) : messages[i].role = "candidate"}
    IN  IF idx = {} THEN <<>> ELSE <<messages[CHOOSE i \in idx : \A j \in idx : j <= i].content>>

RetryLastMessage ==
    /\ Mounted /\ error # ""
    /\ LastCandidate # <<>>
    /\ currentMessage' = LastCandidate[1]
    /\ error' = ""
    /\ UNCHANGED <<messages, isLoading, interviewStage, audioVars, engineReqs, doneVars,
                   interviewId, inputVars>>

\* ------------------------------------------------------------- report page
NoReport == "null"

\* the effect of ReportPage; every id the router hands over other than 'error'
\* is a well-formed UUID and the user is signed in (ReportPage.tsx:584-599, 601-608)
RpEffect(rp) ==
    IF rp.report = NoReport /\ rp.id # "error"
    THEN [rp EXCEPT !.loading = TRUE, !.error = "", !.fetches = @ + 1]
    ELSE IF rp.id = "error" \/ rp.interviewError
         THEN [rp EXCEPT !.error = "Report not found"]
         ELSE rp

\* what ReportPage renders (ReportPage.tsx:649-723)
RpShows(rp) ==
    IF rp.loading THEN "loading"
    ELSE IF rp.error # "" \/ rp.report = NoReport THEN "error"
    ELSE "report"

\* handleInterviewComplete: navigate to /report/<id or 'error'>; ReportPage mounts
\* on the first navigation and keeps its state on a later one
\* (InterviewPage.tsx:899-910; ReportPage.tsx:568-582)
HandleInterviewComplete(id, report, err) ==
    LET navId == IF id = "none" THEN "error" ELSE id
    IN  /\ completeCalls' = completeCalls + 1
        /\ view' = "report"
        /\ reportPage' =
             IF Mounted
             THEN RpEffect([id |-> navId, report |-> report, interviewError |-> err,
                            error |-> "", loading |-> FALSE, fetches |-> 0])
             ELSE IF navId # reportPage.id \/ err # reportPage.interviewError
                  THEN RpEffect([reportPage EXCEPT !.id = navId, !.interviewError = err])
                  ELSE reportPage

\* fetchReportData answered (ReportPage.tsx:610-639), then the effect if report changed
RpFetchDone(res) ==
    /\ view = "report" /\ reportPage.fetches > 0
    /\ LET rp == [reportPage EXCEPT !.fetches = @ - 1, !.loading = FALSE]
       IN  reportPage' =
             IF res = "fail" THEN [rp EXCEPT !.error = "Failed to load interview report"]
             ELSE IF res = rp.report THEN rp
             ELSE RpEffect([rp EXCEPT !.report = res])
    /\ UNCHANGED <<ctlVars, audioVars, engineReqs, completions, scheduled, view, completeCalls,
                   persisted, interviewId, inputVars>>

\* ------------------------------------------------------- completeInterview
DropCompletion(c) == [i \in DOMAIN completions \ {c} |-> completions[i]]

\* the 2 second timer fires: completeInterview sends the report request
\* (InterviewPage.tsx:567-569, 593-616)
TimerFire(c) ==
    /\ c \in DOMAIN completions /\ completions[c].phase = "timer"
    /\ completions' = [completions EXCEPT ![c].phase = "report"]
    /\ UNCHANGED <<ctlVars, audioVars, engineReqs, scheduled, view, completeCalls, persisted,
                   reportPage, interviewId, inputVars>>

\* the report request failed: the catch block (InterviewPage.tsx:618-626, 678-689)
ReportFail(c) ==
    /\ c \in DOMAIN completions /\ completions[c].phase = "report"
    /\ completions' = DropCompletion(c)
    /\ HandleInterviewComplete(interviewId, NoReport, TRUE)
    /\ UNCHANGED <<ctlVars, audioVars, engineReqs, scheduled, persisted, interviewId, inputVars>>

\* success: true without a report: no branch runs (InterviewPage.tsx:628, 677)
ReportOkNoReport(c) ==
    /\ c \in DOMAIN completions /\ completions[c].phase = "report"
    /\ completions' = DropCompletion(c)
    /\ UNCHANGED <<ctlVars, audioVars, engineReqs, scheduled, view, completeCalls, persisted,
                   reportPage, interviewId, inputVars>>

\* the report arrived: the update or the insert is sent (InterviewPage.tsx:628-640, 652-664)
ReportOk(c) ==
    /\ c \in DOMAIN completions /\ completions[c].phase = "report"
    /\ completions' = [completions EXCEPT ![c].phase = "persist"]
    /\ persisted' = Append(persisted,
          [op |-> IF interviewId # "none" THEN "update" ELSE "insert",
           transcript |-> completions[c].msgs, report |-> "report"])
    /\ UNCHANGED <<ctlVars, audioVars, engineReqs, scheduled, view, completeCalls,
                   reportPage, interviewId, inputVars>>

\* the update or the insert answered (InterviewPage.tsx:642-651, 666-675)
PersistDone(c, ok) ==
    /\ c \in DOMAIN completions /\ completions[c].phase = "persist"
    /\ completions' = DropCompletion(c)
    /\ HandleInterviewComplete(
          IF interviewId # "none" THEN interviewId ELSE IF ok THEN "inserted" ELSE "none",
          "report", FALSE)
    /\ UNCHANGED <<ctlVars, audioVars, engineReqs, scheduled, persisted, interviewId, inputVars>>

\* ------------------------------------------------------------ specification
\* ChatInterface is mounted and its mount effect has called startInterview
\* (InterviewPage.tsx:297-309, 322-325, 434-450)
Init ==
    /\ messages = <<>>
    /\ currentMessage = ""
    /\ isLoading = TRUE
    /\ interviewStage = "start"
    /\ error = ""
    /\ isAudioEnabled = TRUE
    /\ isSpeaking = FALSE
    /\ currentAudio = NoAudio
    /\ audioQueue = <<>>
    /\ isProcessingAudio = FALSE
    /\ engineReqs = {[kind |-> "start", msgs |-> <<>>, text |-> "", audio |-> TRUE, stage |-> "start",
                      history |-> <<>>]}
    /\ plays = <<>>
    /\ completions = <<>>
    /\ scheduled = 0
    /\ interviewId \in {"none", "saved"}
    /\ view = "interview"
    /\ completeCalls = 0
    /\ persisted = <<>>
    /\ reportPage = [id |-> "none", report |-> NoReport, interviewError |-> FALSE,
                     error |-> "", loading |-> FALSE, fetches |-> 0]
    /\ isRecording = FALSE
    /\ isTranscribing = FALSE
    /\ recordingError = ""
    /\ mediaRecorder = 0
    /\ recordingTime = 0
    /\ recordingTimerRef = 0
    /\ streamRef = 0
    /\ micRequests = <<>>
    /\ streams = {}
    /\ timers = {}
    /\ recorders = <<>>
    /\ transcriptions = <<>>
    /\ recordClicks = 0

Next ==
    \/ \E r \in engineReqs, f \in EngineFailures : StartInterviewFail(r, f)
    \/ \E r \in engineReqs : StartInterviewNoInterview(r)
    \/ \E r \in engineReqs, q \in Questions : StartInterviewOk(r, q)
    \/ \E text \in Inputs : SetInput(text)
    \/ Submit
    \/ \E r \in engineReqs, f \in EngineFailures : SendMessageFail(r, f)
    \/ \E r \in engineReqs : SendMessageNoInterview(r)
    \/ \E r \in engineReqs, q \in Questions, ns \in StageSet \cup {NoStage}, ic \in BOOLEAN :
          SendMessageOk(r, q, ns, ic)
    \/ RetryLastMessage
    \/ \E t \in DOMAIN plays : TtsOk(t)
    \/ \E t \in DOMAIN plays : TtsOkPlayRejected(t)
    \/ \E t \in DOMAIN plays : TtsFail(t)
    \/ \E t \in DOMAIN plays : AudioEnded(t)
    \/ \E t \in DOMAIN plays : AudioError(t)
    \/ StopCurrentAudio
    \/ ToggleAudio
    \/ \E c \in DOMAIN completions : TimerFire(c)
    \/ \E c \in DOMAIN completions : ReportFail(c)
    \/ \E c \in DOMAIN completions : ReportOkNoReport(c)
    \/ \E c \in DOMAIN completions : ReportOk(c)
    \/ \E c \in DOMAIN completions, ok \in BOOLEAN : PersistDone(c, ok)
    \/ \E res \in {"report", NoReport, "fail"} : RpFetchDone(res)

Spec == Init /\ [][Next]_vars

\* ---------------------------------------------------------------- ChatInput
NoRef == 0

sessionVars == <<messages, isLoading, interviewStage, error, audioVars, engineReqs, doneVars, interviewId>>

Fresh(f) == CHOOSE i \in 1..(Cardinality(DOMAIN f) + 1) : i \notin DOMAIN f

FreshIn(S) == CHOOSE i \in 1..(Cardinality(S) + 1) : i \notin S

Put(f, id, v) == [i \in DOMAIN f \cup {id} |-> IF i = id THEN v ELSE f[i]]

Drop(f, id) == [i \in DOMAIN f \ {id} |-> f[i]]

Min(a, b) == IF a < b THEN a ELSE b

\* ------------------------------------------------- MIME types and filenames
\* A text that the code searches with includes() is a sequence of pieces cut so
\* that every word searched for is a piece of its own.
Includes(s, w) == \E i \in 1..Len(s) : s[i] = w

StartsWith(s, w) == Len(s) > 0 /\ s[1] = w

\* the types getSupportedMimeType tries, in its order (ChatInput.tsx:49-56)
MimePreference == <<
    <<"audio/", "wav">>,
    <<"audio/", "mp4">>,
    <<"audio/", "mpeg">>,
    <<"audio/", "webm", ";codecs=opus">>,
    <<"audio/", "webm">>,
    <<"audio/", "ogg">> >>

MimeTypes == {MimePreference[i] : i \in 1..Len(MimePreference)}

\* getSupportedMimeType in a browser whose MediaRecorder supports the types of
\* the set supported (ChatInput.tsx:47-67)
GetSupportedMimeType(supported) ==
    LET idx == {i \in 1..Len(MimePreference) : MimePreference[i] \in supported}
    IN  IF idx = {} THEN <<"audio/", "webm">>
        ELSE MimePreference[CHOOSE i \in idx : \A j \in idx : i <= j]

FilenameAlwaysWav(mime) == <<"recording", ".", "wav">>

\* the filename transcribeAudio gives the upload (ChatInput.tsx:285-298)
ClientFilename(mime) ==
    IF Includes(mime, "mp4") THEN <<"recording", ".", "mp4">>
    ELSE IF Includes(mime, "mpeg") \/ Includes(mime, "mp3") THEN <<"recording", ".", "mp3">>
    ELSE IF Includes(mime, "webm") THEN <<"recording", ".", "webm">>
    ELSE IF Includes(mime, "ogg") THEN <<"recording", ".", "ogg">>
    ELSE <<"recording", ".", "wav">>

\* the filename the transcribe-audio function gives the file it sends on
\* (part_001:159-176)
ServerFilename(name, mime) ==
    IF ~Includes(name, ".") \/ name = <<"blob">>
    THEN IF Includes(mime, "webm") THEN <<"recording", ".", "webm">>
         ELSE IF Includes(mime, "mp4") THEN <<"recording", ".", "mp4">>
         ELSE IF Includes(mime, "mp3") \/ Includes(mime, "mpeg") THEN <<"recording", ".", "mp3">>
         ELSE IF Includes(mime, "ogg") THEN <<"recording", ".", "ogg">>
         ELSE <<"recording", ".", "wav">>
    ELSE name

\* the formats the function lists (part_001:134-137)
SupportedFormats ==
    {<<"audio/", "wav">>, <<"audio/", "mp3">>, <<"audio/", "mpeg">>, <<"audio/", "mp4">>,
     <<"audio/", "webm">>, <<"audio/", "ogg">>, <<"audio/", "flac">>, <<"audio/", "m4a">>}

\* part_001:140-142
IsValidAudioType(mime) ==
    mime \in SupportedFormats \/ StartsWith(mime, "audio/") \/ mime = <<"application/octet-stream">>

\* ------------------------------------------------ the transcribe-audio function
MinSize == 100         \* part_001:98

\* what the transcription service can answer: a text, or an error status
WhisperTexts == {"answer", " ", ""}

WhisperErrors == {"400", "401", "413", "429", "500", "503"}

WhisperOutcomes ==
    {[status |-> "200", text |-> t] : t \in WhisperTexts}
       \cup {[status |-> st, text |-> ""] : st \in WhisperErrors}

\* the error text for a failed call of the service (part_001:224-235)
WhisperErrorText(st) ==
    IF st = "400" THEN "Invalid audio file format or content. The audio might be corrupted or too short."
    ELSE IF st = "413" THEN "Audio file too large for processing"
    ELSE IF st = "429" THEN "Too many requests. Please try again later."
    ELSE IF st = "401" THEN "Authentication failed with OpenAI API"
    ELSE IF st = "500" THEN "OpenAI service error. Please try again later."
    ELSE "Failed to transcribe audio"

Failure(st, text) == [status |-> st, success |-> FALSE, error |-> text, transcription |-> ""]

ServeWithoutSpeechCheck(file, w) ==
    IF file.bytes < MinSize
    THEN Failure("400", "Audio file too small. Please record for at least 2 seconds.")
    ELSE IF ~IsValidAudioType(file.mime)
    THEN Failure("400", "Unsupported audio format")
    ELSE IF w.status # "200"
    THEN Failure(w.status, WhisperErrorText(w.status))
    ELSE [status |-> "200", success |-> TRUE, error |-> "", transcription |-> Trim(w.text)]

\* the response of the function for an upload, given the answer w of the
\* transcription service (part_001:97-156, 215-323); uploads stay far below the
\* 25 MB limit
Serve(file, w) ==
    IF file.bytes < MinSize
    THEN Failure("400", "Audio file too small. Please record for at least 2 seconds.")
    ELSE IF ~IsValidAudioType(file.mime)
    THEN Failure("400", "Unsupported audio format")
    ELSE IF w.status # "200"
    THEN Failure(w.status, WhisperErrorText(w.status))
    ELSE IF w.text = ""
    THEN Failure("400", "No speech detected in the audio. Please speak more clearly or record for longer.")
    ELSE IF Trim(w.text) = ""
    THEN Failure("400", "No speech detected in the audio. Please speak more clearly.")
    ELSE [status |-> "200", success |-> TRUE, error |-> "", transcription |-> Trim(w.text)]

\* ------------------------------------------- transcribeAudio after its fetch
NoThrow == <<>>

\* the message of the Error transcribeAudio throws for a response, NoThrow when
\* it throws none (ChatInput.tsx:334-364)
ThrownMessage(resp) ==
    IF resp.status # "200"
    THEN (IF resp.status = "400" THEN <<"Invalid audio", " ", "format", ". Please try recording again with a different browser or device.">>
          ELSE IF resp.status = "413" THEN <<"Audio file too ", "large", ". Please record a shorter message.">>
          ELSE IF resp.status = "429" THEN <<"Too many ", "requests", ". Please wait a moment and try again.">>
          ELSE IF resp.status = "401" \/ resp.status = "403"
               THEN <<"Authentication", " error. Please refresh the page and try again.">>
          ELSE IF resp.status = "500" THEN <<"Server error. Please try again or use text input instead.">>
          ELSE <<"Failed to transcribe audio">>)
         \o <<" (Status: ", resp.status, ")">>
    ELSE IF ~resp.success THEN <<"Transcription failed">>
    ELSE NoThrow

\* the message of the TypeError a fetch throws when the network fails
FetchFailed == <<"Failed to ", "fetch">>

\* the text shown for an error message that no test of the catch block matches
AsShown(msg) ==
    IF Len(msg) = 1 THEN msg[1]
    ELSE IF msg[Len(msg) - 1] = "503" THEN "Failed to transcribe audio (Status: 503)"
    ELSE "Failed to transcribe audio (Status: other)"

\* the error the catch block of transcribeAudio shows (ChatInput.tsx:381-398)
CatchMessage(msg) ==
    IF Includes(msg, "fetch") \/ Includes(msg, "network")
    THEN "Network error. Please check your connection and try again."
    ELSE IF Includes(msg, "format") \/ Includes(msg, "Invalid audio")
    THEN "Audio format not supported. Please try recording again or use text input."
    ELSE IF Includes(msg, "large")
    THEN "Recording too long. Please record a shorter message."
    ELSE IF Includes(msg, "requests") \/ Includes(msg, "429")
    THEN "Too many requests. Please wait a moment and try again."
    ELSE IF Includes(msg, "Authentication") \/ Includes(msg, "401") \/ Includes(msg, "403")
    THEN "Authentication error. Please refresh the page and try again."
    ELSE IF Includes(msg, "500")
    THEN "Server error. Please try again later or use text input."
    ELSE AsShown(msg)

\* the input box after a response that threw nothing (ChatInput.tsx:367-376)
InputAfter(resp, input) ==
    IF resp.transcription # "" /\ Trim(resp.transcription) # "" THEN resp.transcription ELSE input

\* the Record / Stop button accepts a click (ChatInput.tsx:448-453, InterviewPage.tsx:851-856)
RecordButtonEnabled ==
    ~(isSpeaking \/ (isLoading \/ isSpeaking) \/ isTranscribing
      \/ (isRecording /\ ~(recordingTime >= MinStopSeconds)))

\* startRecording up to getUserMedia; the closures created later in this call
\* see the recordingTime and mediaRecorder of this render (ChatInput.tsx:69-90)
StartRecording ==
    /\ Mounted /\ RecordButtonEnabled /\ ~isRecording
    /\ recordClicks < MaxRecordings
    /\ recordClicks' = recordClicks + 1
    /\ recordingError' = ""
    /\ micRequests' = Put(micRequests, Fresh(micRequests),
                          [time |-> recordingTime, rec |-> mediaRecorder])
    /\ UNCHANGED <<sessionVars, currentMessage, isRecording, isTranscribing, mediaRecorder,
                   recordingTime, recordingTimerRef, streamRef, streams, timers, recorders,
                   transcriptions>>

\* the message of the catch block of startRecording (ChatInput.tsx:218-234)
MicErrorText(why) ==
    IF why = "NotAllowedError" THEN "Microphone access denied"
    ELSE IF why = "NotFoundError" THEN "No microphone found"
    ELSE "Failed to start recording"

\* getUserMedia rejected (ChatInput.tsx:82-90, 218-234)
GetUserMediaFail(m, why) ==
    /\ m \in DOMAIN micRequests
    /\ micRequests' = Drop(micRequests, m)
    /\ recordingError' = Upd(MicErrorText(why), recordingError)
    /\ UNCHANGED <<sessionVars, currentMessage, isRecording, isTranscribing, mediaRecorder,
                   recordingTime, recordingTimerRef, streamRef, streams, timers, recorders,
                   transcriptions, recordClicks>>

\* getUserMedia resolved in a browser that supports the MIME types of the set
\* supported: the recorder is created and started, the timer is started
\* (ChatInput.tsx:92-216)
GetUserMediaOk(m, supported) ==
    /\ m \in DOMAIN micRequests
    /\ micRequests' = Drop(micRequests, m)
    /\ LET s == FreshIn(streams \cup {recorders[r].stream : r \in DOMAIN recorders})
           r == Fresh(recorders)
           t == FreshIn(timers)
       IN  /\ streams' = streams \cup {s}
           /\ streamRef' = s
           /\ recorders' = Put(recorders, r,
                 [state |-> "recording", stream |-> s, time |-> micRequests[m].time,
                  rec |-> micRequests[m].rec, chunks |-> 0, elapsed |-> 0,
                  mime |-> GetSupportedMimeType(supported)])
           /\ mediaRecorder' = Upd(r, mediaRecorder)
           /\ timers' = timers \cup {t}
           /\ recordingTimerRef' = t
    /\ isRecording' = Upd(TRUE, isRecording)
    /\ recordingTime' = Upd(0, recordingTime)
    /\ UNCHANGED <<sessionVars, currentMessage, isTranscribing, recordingError,
                   transcriptions, recordClicks>>

\* getUserMedia resolved and new MediaRecorder or recorder.start threw
\* (ChatInput.tsx:93, 100-103, 202, 218-234)
GetUserMediaOkRecorderThrows(m) ==
    /\ m \in DOMAIN micRequests
    /\ micRequests' = Drop(micRequests, m)
    /\ LET s == FreshIn(streams \cup {recorders[r].stream : r \in DOMAIN recorders})
       IN  /\ streams' = streams \cup {s}
           /\ streamRef' = s
    /\ recordingError' = Upd(MicErrorText("other"), recordingError)
    /\ UNCHANGED <<sessionVars, currentMessage, isRecording, isTranscribing, mediaRecorder,
                   recordingTime, recordingTimerRef, timers, recorders, transcriptions,
                   recordClicks>>

\* one second passes: every running interval ticks (ChatInput.tsx:208-214) and
\* every recorder that is recording has recorded one second more
Tick ==
    /\ timers # {} \/ \E r \in DOMAIN recorders : recorders[r].state = "recording"
    /\ recordingTime' = Upd(Min(recordingTime + Cardinality(timers), MaxTime), recordingTime)
    /\ recorders' = [r \in DOMAIN recorders |->
          IF recorders[r].state = "recording"
          THEN [recorders[r] EXCEPT !.elapsed = Min(@ + 1, MaxTime)]
          ELSE recorders[r]]
    /\ UNCHANGED <<sessionVars, currentMessage, isRecording, isTranscribing, recordingError,
                   mediaRecorder, recordingTimerRef, streamRef, micRequests, streams, timers,
                   transcriptions, recordClicks>>

\* recorder.ondataavailable with a non-empty chunk (ChatInput.tsx:109-122)
DataAvailable(r) ==
    /\ r \in DOMAIN recorders
    /\ recorders[r].chunks < MaxChunks
    /\ recorders' = [recorders EXCEPT ![r].chunks = @ + 1]
    /\ UNCHANGED <<sessionVars, currentMessage, isRecording, isTranscribing, recordingError,
                   mediaRecorder, recordingTime, recordingTimerRef, streamRef, micRequests,
                   streams, timers, transcriptions, recordClicks>>

\* stopRecording as written in the render whose mediaRecorder is rec
\* (ChatInput.tsx:237-270); recorder.stop() queues the stop event
StopRecordingBody(rec, recs) ==
    /\ recorders' = IF rec \in DOMAIN recs /\ recs[rec].state = "recording"
                    THEN [recs EXCEPT ![rec].state = "stopping"]
                    ELSE recs
    /\ isRecording' = Upd(FALSE, isRecording)
    /\ mediaRecorder' = Upd(NoRef, mediaRecorder)
    /\ timers' = timers \ {recordingTimerRef}
    /\ recordingTimerRef' = NoRef
    /\ streams' = streams \ {streamRef}
    /\ streamRef' = NoRef

\* the Stop button (ChatInput.tsx:452-453)
StopRecording ==
    /\ Mounted /\ RecordButtonEnabled /\ isRecording
    /\ StopRecordingBody(mediaRecorder, recorders)
    /\ UNCHANGED <<sessionVars, currentMessage, isTranscribing, recordingError, recordingTime,
                   micRequests, transcriptions, recordClicks>>

\* recorder.onerror, which calls the stopRecording of the render that called
\* startRecording; the recorder becomes inactive and its stop event is queued
\* (ChatInput.tsx:182-186)
RecorderError(r) ==
    /\ r \in DOMAIN recorders /\ recorders[r].state = "recording"
    /\ recordingError' = Upd("Recording failed", recordingError)
    /\ StopRecordingBody(recorders[r].rec, [recorders EXCEPT ![r].state = "stopping"])
    /\ UNCHANGED <<sessionVars, currentMessage, isTranscribing, recordingTime,
                   micRequests, transcriptions, recordClicks>>

Bytes(rec) == rec.chunks * ChunkSize

\* why recorder.onstop rejects a recording, "" when it accepts it; recordingTime
\* is the value its closure captured (ChatInput.tsx:143-171)
RejectReason(rec) ==
    IF rec.chunks = 0 THEN "No audio data recorded"
    ELSE IF Bytes(rec) < MinBytes THEN "Recording too short or empty"
    ELSE IF rec.time < MinSeconds THEN "Recording too short"
    ELSE ""

\* recorder.onstop up to the fetch of transcribeAudio (ChatInput.tsx:124-176, 272-326)
RecorderOnStop(r) ==
    /\ r \in DOMAIN recorders /\ recorders[r].state = "stopping"
    /\ recorders' = Drop(recorders, r)
    /\ streams' = streams \ {streamRef}
    /\ streamRef' = NoRef
    /\ IF RejectReason(recorders[r]) # ""
       THEN /\ recordingError' = Upd(RejectReason(recorders[r]), recordingError)
            /\ UNCHANGED <<isTranscribing, transcriptions>>
       ELSE /\ recordingError' = Upd("", recordingError)
            /\ isTranscribing' = Upd(TRUE, isTranscribing)
            /\ transcriptions' = Put(transcriptions, Fresh(transcriptions),
                  [phase |-> "sent",
                   file |-> [bytes |-> Bytes(recorders[r]), mime |-> recorders[r].mime,
                             name |-> ClientFilename(recorders[r].mime)]])
    /\ UNCHANGED <<sessionVars, currentMessage, isRecording, mediaRecorder, recordingTime,
                   recordingTimerRef, micRequests, timers, recordClicks>>

\* the transcribe-audio function handles the upload: it sends the file on to
\* the transcription service, which answers w, and responds (part_001:9-323)
ServeTranscription(tr, w) ==
    /\ tr \in DOMAIN transcriptions /\ transcriptions[tr].phase = "sent"
    /\ transcriptions' = [transcriptions EXCEPT ![tr] =
          [phase |-> "answered", file |-> @.file,
           sentOn |-> ServerFilename(@.file.name, @.file.mime),
           heard |-> w, resp |-> Serve(@.file, w)]]
    /\ UNCHANGED <<sessionVars, currentMessage, isRecording, isTranscribing, recordingError,
                   mediaRecorder, recordingTime, recordingTimerRef, streamRef, micRequests,
                   streams, timers, recorders, recordClicks>>

\* what transcribeAudio and then recorder.onstop do once the fetch has settled
\* with the error message msg or the response resp (ChatInput.tsx:334-405, 178-179)
AfterFetch(tr, msg, resp) ==
    /\ transcriptions' = Drop(transcriptions, tr)
    /\ currentMessage' = IF msg = NoThrow
                         THEN Upd(InputAfter(resp, currentMessage), currentMessage)
                         ELSE currentMessage
    /\ recordingError' = IF msg = NoThrow THEN recordingError
                         ELSE Upd(CatchMessage(msg), recordingError)
    /\ isTranscribing' = Upd(FALSE, isTranscribing)
    /\ recordingTime' = Upd(0, recordingTime)
    /\ UNCHANGED <<sessionVars, isRecording, mediaRecorder, recordingTimerRef, streamRef,
                   micRequests, streams, timers, recorders, recordClicks>>

\* the response of the function arrived
TranscribeDone(tr) ==
    /\ tr \in DOMAIN transcriptions /\ transcriptions[tr].phase = "answered"
    /\ AfterFetch(tr, ThrownMessage(transcriptions[tr].resp), transcriptions[tr].resp)

\* the fetch failed: no response arrives (ChatInput.tsx:320-326, 378-405)
TranscribeNetworkFail(tr) ==
    /\ tr \in DOMAIN transcriptions
    /\ AfterFetch(tr, FetchFailed, Failure("0", ""))

\* the candidate only records: no typing, no submission
NextRec ==
    \/ \E r \in engineReqs, f \in EngineFailures : StartInterviewFail(r, f)
    \/ \E r \in engineReqs : StartInterviewNoInterview(r)
    \/ \E r \in engineReqs, q \in Questions : StartInterviewOk(r, q)
    \/ \E t \in DOMAIN plays : TtsOk(t)
    \/ \E t \in DOMAIN plays : TtsOkPlayRejected(t)
    \/ \E t \in DOMAIN plays : TtsFail(t)
    \/ \E t \in DOMAIN plays : AudioEnded(t)
    \/ \E t \in DOMAIN plays : AudioError(t)
    \/ StopCurrentAudio
    \/ ToggleAudio
    \/ StartRecording
    \/ \E m \in DOMAIN micRequests, why \in {"NotAllowedError", "NotFoundError", "other"} :
          GetUserMediaFail(m, why)
    \/ \E m \in DOMAIN micRequests, supported \in {MimeTypes, {}} : GetUserMediaOk(m, supported)
    \/ \E m \in DOMAIN micRequests : GetUserMediaOkRecorderThrows(m)
    \/ Tick
    \/ \E r \in DOMAIN recorders : DataAvailable(r)
    \/ StopRecording
    \/ \E r \in DOMAIN recorders : RecorderError(r)
    \/ \E r \in DOMAIN recorders : RecorderOnStop(r)
    \/ \E tr \in DOMAIN transcriptions, w \in {w \in WhisperOutcomes : w.status \in {"200", "500"}} :
          ServeTranscription(tr, w)
    \/ \E tr \in DOMAIN transcriptions : TranscribeDone(tr)
    \/ \E tr \in DOMAIN transcriptions : TranscribeNetworkFail(tr)

SpecRec == Init /\ [][NextRec]_vars

\* the candidate has nothing under way when clicking Record
Idle == micRequests = <<>> /\ recorders = <<>> /\ transcriptions = <<>>

\* the candidate records one answer after the other, in any browser, and the
\* transcription service answers in any way; the interviewer's speech is left
\* to play to its end
NextTr ==
    \/ \E r \in engineReqs : StartInterviewFail(r, "network")
    \/ \E r \in engineReqs, q \in Questions : StartInterviewOk(r, q)
    \/ \E t \in DOMAIN plays : TtsOk(t)
    \/ \E t \in DOMAIN plays : AudioEnded(t)
    \/ Idle /\ StartRecording
    \/ \E m \in DOMAIN micRequests, supported \in SUBSET MimeTypes : GetUserMediaOk(m, supported)
    \/ Tick
    \/ \E r \in DOMAIN recorders : DataAvailable(r)
    \/ StopRecording
    \/ \E r \in DOMAIN recorders : RecorderOnStop(r)
    \/ \E tr \in DOMAIN transcriptions, w \in WhisperOutcomes : ServeTranscription(tr, w)
    \/ \E tr \in DOMAIN transcriptions : TranscribeDone(tr)
    \/ \E tr \in DOMAIN transcriptions : TranscribeNetworkFail(tr)

SpecTr == Init /\ [][NextTr]_vars

\* the candidate both types and records; the engine asks on without ending
\* the interview, at times with a result that has no question; the
\* interviewer's speech is left to play to its end
NextSession ==
    \/ \E r \in engineReqs, f \in EngineFailures : StartInterviewFail(r, f)
    \/ \E r \in engineReqs, q \in Questions : StartInterviewOk(r, q)
    \/ \E text \in Inputs : SetInput(text)
    \/ Submit
    \/ \E r \in engineReqs, f \in EngineFailures : SendMessageFail(r, f)
    \/ \E r \in engineReqs, q \in Questions \cup {Undefined} : SendMessageOk(r, q, NoStage, FALSE)
    \/ \E t \in DOMAIN plays : TtsOk(t)
    \/ \E t \in DOMAIN plays : AudioEnded(t)
    \/ StartRecording
    \/ \E m \in DOMAIN micRequests : GetUserMediaOk(m, MimeTypes)
    \/ Tick
    \/ \E r \in DOMAIN recorders : DataAvailable(r)
    \/ StopRecording
    \/ \E r \in DOMAIN recorders : RecorderOnStop(r)
    \/ \E tr \in DOMAIN transcriptions, w \in {w \in WhisperOutcomes : w.status = "200"} :
          ServeTranscription(tr, w)
    \/ \E tr \in DOMAIN transcriptions : TranscribeDone(tr)

SpecSession == Init /\ [][NextSession]_vars

\* two answers the candidate can tell apart
Answers == {"answer", "other"}

\* every kind of request fails at times: the candidate types, sends, retries
\* and records one answer after the other
NextRetry ==
    \/ \E r \in engineReqs, q \in Questions : StartInterviewOk(r, q)
    \/ \E text \in Answers : Idle /\ SetInput(text)
    \/ Idle /\ Submit
    \/ \E r \in engineReqs, f \in {"network", "http500"} : SendMessageFail(r, f)
    \/ \E r \in engineReqs, q \in Questions, ic \in BOOLEAN : SendMessageOk(r, q, NoStage, ic)
    \/ RetryLastMessage
    \/ \E t \in DOMAIN plays : TtsOk(t)
    \/ \E t \in DOMAIN plays : TtsFail(t)
    \/ \E t \in DOMAIN plays : AudioEnded(t)
    \/ \E c \in DOMAIN completions : TimerFire(c)
    \/ \E c \in DOMAIN completions : ReportFail(c)
    \/ Idle /\ engineReqs = {} /\ StartRecording
    \/ \E m \in DOMAIN micRequests : GetUserMediaOk(m, MimeTypes)
    \/ Tick
    \/ \E r \in DOMAIN recorders : DataAvailable(r)
    \/ StopRecording
    \/ \E r \in DOMAIN recorders : RecorderOnStop(r)
    \/ \E tr \in DOMAIN transcriptions, w \in {w \in WhisperOutcomes : w.status \in {"200", "500"}} :
          ServeTranscription(tr, w)
    \/ \E tr \in DOMAIN transcriptions : TranscribeDone(tr)
    \/ \E tr \in DOMAIN transcriptions : TranscribeNetworkFail(tr)

SpecRetry == Init /\ [][NextRetry]_vars

\* =================================================================== claims
NumCandidate(ms) == Cardinality({i \in 1..Len(ms) : ms[i].role = "candidate"})

Roles(ms) == [i \in 1..Len(ms) |-> ms[i].role]

\* C1: the interview stage never moves to an earlier stage of the ordering
\* start < technical < behavioral < situational < closing.
StageNeverDecreases ==
    [][StageIdx(interviewStage') >= StageIdx(interviewStage)]_vars

\* C2: a startInterview that the engine answers with a question leaves exactly
\* one Turn, an interviewer Turn; a sendMessage that the engine answers with a
\* question leaves the transcript as it was before the submission plus a
\* candidate Turn and an interviewer Turn.
TurnsPerCycle ==
    [][Mounted =>
        /\ \A r \in engineReqs, q \in Questions :
              StartInterviewOk(r, q) => Roles(messages') = <<"interviewer">>
        /\ \A r \in engineReqs, q \in Questions, ns \in StageSet \cup {NoStage}, ic \in BOOLEAN :
              SendMessageOk(r, q, ns, ic) =>
                 /\ Len(messages') = Len(r.msgs) + 2
                 /\ SubSeq(messages', 1, Len(r.msgs)) = r.msgs
                 /\ messages'[Len(r.msgs) + 1] = Message("candidate", r.text)
                 /\ messages'[Len(r.msgs) + 2].role = "interviewer"]_vars

\* C2 witness: a sendMessage cycle has completed after a successful start.
CycleCompleted ==
    /\ Mounted /\ engineReqs = {} /\ ~isLoading
    /\ Roles(messages) = <<"interviewer", "candidate", "interviewer">>

\* C3: at any instant at most one synthesized utterance is playing.
AtMostOnePlaying == Cardinality(Playing) <= 1

\* C3 witness: an utterance whose text-to-speech request was interrupted by
\* stopCurrentAudio plays although the queue is no longer being processed.
InterruptedUtterancePlays == Playing # {} /\ ~isProcessingAudio /\ Mounted

\* C4: a failed sendMessage leaves the transcript as it was before the
\* candidate submitted, and the stage unchanged.
FailedRoundNotAppended ==
    [][Mounted =>
        \A r \in engineReqs, f \in EngineFailures :
           SendMessageFail(r, f) => (messages' = r.msgs /\ interviewStage' = r.stage)]_vars

\* C5: a step taken while isSpeaking is true neither appends a candidate Turn
\* nor starts a DialogueEngine call.
NoSubmitWhileSpeaking ==
    [][(Mounted /\ isSpeaking) =>
          /\ NumCandidate(messages') = NumCandidate(messages)
          /\ engineReqs' \subseteq engineReqs]_vars

\* C5 witness: the interviewer is speaking while the candidate has a response
\* ready in the input box and no DialogueEngine call is in flight.
ResponseReadyWhileSpeaking ==
    Mounted /\ isSpeaking /\ SendGuard /\ ~isTranscribing

\* C6: onInterviewComplete is invoked at most once in a session.
CompletedAtMostOnce == completeCalls <= 1

\* C7: the transcript completeInterview sends with the report request is the
\* transcript at the time completeInterview runs.
FullTranscriptReported ==
    [][\A c \in DOMAIN completions :
          TimerFire(c) => completions'[c].msgs = messages]_vars

\* C8: a completeInterview call that ends without a persistence write has
\* taken the degraded path, which invokes onInterviewComplete with the error flag.
NeverBothOmitted ==
    [][\A c \in DOMAIN completions :
          (completions[c].phase = "report" /\ c \notin DOMAIN completions')
             => (completeCalls' = completeCalls + 1 /\ reportPage'.interviewError)]_vars

\* C9: once the user is on the report page with a generated report, the page
\* does not show the error view.
ReportViewShowsReport ==
    (view = "report" /\ reportPage.report # NoReport) => RpShows(reportPage) # "error"

\* C10: a stopped recording whose elapsed time or byte size is below the
\* threshold is rejected with an error and no transcription request is sent.
TooShortNeverTranscribed ==
    [][\A r \in DOMAIN recorders :
          (RecorderOnStop(r)
             /\ (recorders[r].elapsed < MinSeconds \/ Bytes(recorders[r]) < MinBytes))
          => (transcriptions' = transcriptions /\ recordingError' # "")]_vars

\* the transcription service heard nothing: its text is empty or blank
HeardNothing(t) == t.phase = "answered" /\ t.heard.status = "200" /\ Trim(t.heard.text) = ""

NoSpeechErrors ==
    {"No speech detected in the audio. Please speak more clearly or record for longer.",
     "No speech detected in the audio. Please speak more clearly."}

\* C11: a transcription whose text is empty or blank is answered with the
\* no-speech error, and handling that answer leaves the input box, the
\* transcript and the DialogueEngine requests as they were.
NoSpeechNeverATurn ==
    [][\A tr \in DOMAIN transcriptions :
          (HeardNothing(transcriptions[tr]) /\ TranscribeDone(tr)) =>
             /\ ~transcriptions[tr].resp.success
             /\ transcriptions[tr].resp.error \in NoSpeechErrors
             /\ currentMessage' = currentMessage
             /\ messages' = messages
             /\ engineReqs' = engineReqs]_vars

\* C11 witness: the function has answered an upload in which the service heard
\* only whitespace.
BlankTranscriptionAnswered ==
    \E tr \in DOMAIN transcriptions :
       HeardNothing(transcriptions[tr]) /\ transcriptions[tr].heard.text = " " /\ isTranscribing

\* C12: the error shown for a recording without speech differs from the error
\* shown for every failed call of the transcription service (400, 401, 429,
\* 500, 503).
NoSpeechShownDistinctly ==
    [][\A tr \in DOMAIN transcriptions :
          (HeardNothing(transcriptions[tr]) /\ TranscribeDone(tr)) =>
             \A w \in WhisperOutcomes :
                w.status \in {"400", "401", "429", "500", "503"} =>
                   recordingError' # CatchMessage(ThrownMessage(Serve(transcriptions[tr].file, w)))]_vars

\* the extension of the container a MIME type declares: wav, mp4, mp3 for
\* mpeg, webm, ogg
ContainerExtension(mime) == IF mime[2] = "mpeg" THEN "mp3" ELSE mime[2]

Extension(name) == name[Len(name)]

\* C13: the filename of every upload, as the client names it and as the
\* function sends it on, ends in the extension of the container its MIME type
\* declares.
ExtensionMatchesContainer ==
    \A tr \in DOMAIN transcriptions :
       LET t == transcriptions[tr]
       IN  /\ Includes(t.file.name, ".")
           /\ Extension(t.file.name) = ContainerExtension(t.file.mime)
           /\ t.phase = "answered" =>
                 /\ Includes(t.sentOn, ".")
                 /\ Extension(t.sentOn) = ContainerExtension(t.file.mime)

\* C13 witness: recordings of two containers whose extension is found by a
\* later test of the chain have been sent on.
MpegAndOpusSentOn ==
    \E tr \in DOMAIN transcriptions :
       /\ transcriptions[tr].phase = "answered"
       /\ transcriptions[tr].file.mime \in {<<"audio/", "mpeg">>, <<"audio/", "webm", ";codecs=opus">>}
       /\ transcriptions[tr].heard.status = "200"

\* C14: switching audio off leaves audioQueue as it was.
DisableKeepsQueue ==
    [][(ToggleAudio /\ isAudioEnabled) => audioQueue' = audioQueue]_vars

\* C15: stopCurrentAudio leaves the queue empty and nothing playing, and as
\* long as the queue stays empty nothing starts to play.
NothingPlaysAfterInterrupt ==
    [][Mounted =>
         /\ StopCurrentAudio => (audioQueue' = <<>> /\ Playing' = {})
         /\ (audioQueue = <<>> /\ audioQueue' = <<>>) => Playing' = {}]_vars

\* C16: utterances are played one after the other in the order of the queue:
\* at most one item is in the queue or in synthesis or playing at a time, and
\* the item the queue is processing is its oldest one.
PlayedInEnqueueOrder ==
    /\ Cardinality(DOMAIN plays) <= 1
    /\ Len(audioQueue) <= 1
    /\ \A t \in DOMAIN plays :
          isProcessingAudio => (audioQueue # <<>> /\ plays[t].text = Head(audioQueue))

\* C16 witness: the utterance of a second interviewer Turn is playing after the
\* first one was played.
SecondUtterancePlaying ==
    /\ Mounted /\ Playing # {} /\ isProcessingAudio
    /\ Cardinality({i \in 1..Len(messages) : messages[i].role = "interviewer"}) = 2

\* C17: after an utterance failed (synthesis failure, audio element error,
\* play() rejected) the interviewer is no longer speaking, unless the next
\* utterance has started.
FailedUtteranceDoesNotStall ==
    [][Mounted =>
         \A t \in DOMAIN plays :
            (TtsFail(t) \/ AudioError(t) \/ TtsOkPlayRejected(t))
               => (isSpeaking' => DOMAIN plays' # {})]_vars

\* C18: after stopRecording, after a recorder error and after a startRecording
\* that failed once getUserMedia had resolved, no stream the component acquired
\* is live and no recording timer is running.
MicrophoneReleasedOnExit ==
    [][Mounted =>
         ((StopRecording
             \/ (\E r \in DOMAIN recorders : RecorderError(r))
             \/ (\E m \in DOMAIN micRequests : GetUserMediaOkRecorderThrows(m)))
          => (streams' = {} /\ timers' = {}))]_vars

\* C19: at most one microphone stream is live, and a live stream is the one
\* streamRef refers to.
OneCaptureHandle ==
    Cardinality(streams) <= 1 /\ \A st \in streams : st = streamRef

\* the activities of a session that are going on
Activities ==
    {a \in {"capturing", "transcribing", "awaiting response", "speaking"} :
        \/ a = "capturing" /\ isRecording
        \/ a = "transcribing" /\ isTranscribing
        \/ a = "awaiting response" /\ isLoading
        \/ a = "speaking" /\ isSpeaking}

\* C20: no two of isRecording, isTranscribing, isLoading and isSpeaking are
\* true together.
OneActivityAtATime == Cardinality(Activities) <= 1

\* C21: at most one interview-engine request of the session is awaiting its
\* response, and a request is issued only when none is.
OneEngineCallInFlight ==
    /\ Cardinality(engineReqs) <= 1
    /\ isLoading \/ engineReqs = {} \/ ~Mounted

\* C21 witness: a turn request is in flight after an earlier turn request of
\* the session was answered.
LaterTurnRequestInFlight ==
    /\ Mounted /\ isLoading
    /\ \E r \in engineReqs : r.kind = "send" /\ Len(r.msgs) >= 2

\* C22: the conversationHistory of every turn request is the transcript before
\* the submission followed by the candidate Turn just submitted.
HistoryEndsWithSubmittedTurn ==
    [][\A r \in engineReqs' \ engineReqs :
          /\ r.kind = "send"
          /\ Len(r.history) = Len(messages) + 1
          /\ SubSeq(r.history, 1, Len(messages)) = messages
          /\ r.history[Len(r.history)] = Message("candidate", currentMessage)
          /\ r.history = messages']_vars

\* C22 witness: the request of a second round is in flight; its history holds
\* the first round.
SecondRoundRequested ==
    \E r \in engineReqs :
       r.kind = "send" /\ Roles(r.history) = <<"interviewer", "candidate", "interviewer", "candidate">>

\* startInterview has failed: nothing is in flight, the transcript is empty and
\* the error alert is shown
StartFailed == Mounted /\ messages = <<>> /\ engineReqs = {} /\ ~isLoading /\ error # ""

\* a step of the session that issues a start request
ReinvokesStart == Next /\ \E r \in engineReqs' : r.kind = "start"

\* C23: after startInterview has failed, a step that re-invokes initialization
\* is possible.
StartFailureRetryable == StartFailed => ENABLED ReinvokesStart

\* C30: the transcript is empty or begins with an interviewer Turn.
TranscriptBeginsWithInterviewer ==
    messages = <<>> \/ messages[1].role = "interviewer"

NumInterviewer(ms) == Cardinality({i \in 1..Len(ms) : ms[i].role = "interviewer"})

\* C24: a dialogue response whose result has no question appends no
\* interviewer Turn, leaves the stage as it is and schedules no completion.
IncompleteResultIsFailure ==
    [][Mounted =>
         \A r \in engineReqs, ns \in StageSet \cup {NoStage}, ic \in BOOLEAN :
            SendMessageOk(r, Undefined, ns, ic) =>
               /\ NumInterviewer(messages') = NumInterviewer(messages)
               /\ interviewStage' = interviewStage
               /\ completions' = completions]_vars

\* the commands for which the migration creates a row-level-security policy on
\* interviews; row-level security is enabled on the table
Policies == {"SELECT", "INSERT"}

\* a write reaches the owner's row only under a policy for its command; an
\* update without one matches no row and returns no error
Permitted(op) ==
    \/ op = "insert" /\ "INSERT" \in Policies
    \/ op = "update" /\ "UPDATE" \in Policies

\* report_data of the InterviewRecord the session was started from: HomePage
\* inserts it as null, and each permitted update replaces it
RECURSIVE StoredReport(_)
StoredReport(log) ==
    IF log = <<>> THEN NoReport
    ELSE LET w == log[Len(log)]
         IN  IF w.op = "update" /\ Permitted(w.op) THEN w.report
             ELSE StoredReport(SubSeq(log, 1, Len(log) - 1))

\* C25: when the update of a session started from a saved configuration has
\* answered without an error, the saved InterviewRecord carries the report.
ReportAttachedToRecord ==
    [][\A c \in DOMAIN completions :
          (interviewId # "none" /\ PersistDone(c, TRUE)) =>
             StoredReport(persisted) # NoReport]_vars

\* C26: a request is issued only by the step that stands for its cause (an
\* engine request by a submission, a transcription by the end of a recording),
\* the step in which a synthesis or a report request fails starts no request,
\* and after a failed sendMessage the error alert is shown and its Retry
\* restores the text of the failed request.
NoAutomaticRetry ==
    [][/\ ~(engineReqs' \subseteq engineReqs) => Submit
       /\ (\E tr \in DOMAIN transcriptions' :
              tr \notin DOMAIN transcriptions \/ transcriptions'[tr].file # transcriptions[tr].file)
             => \E r \in DOMAIN recorders : RecorderOnStop(r)
       /\ \A t \in DOMAIN plays :
             TtsFail(t) => \A u \in DOMAIN plays' : u # t /\ u \in DOMAIN plays /\ plays'[u] = plays[u]
       /\ \A c \in DOMAIN completions :
             ReportFail(c) =>
                \A d \in DOMAIN completions' :
                   d # c /\ d \in DOMAIN completions /\ completions'[d] = completions[d]
       /\ \A r \in engineReqs, f \in {"network", "http500"} :
             (Mounted /\ SendMessageFail(r, f)) =>
                /\ error' # ""
                /\ LastCandidate' = <<r.text>>
       /\ RetryLastMessage =>
             /\ engineReqs' = engineReqs /\ messages' = messages
             /\ currentMessage' = messages[Len(messages)].content]_vars

RetryRestoredSecondAnswer ==
    /\ Mounted /\ error = "" /\ engineReqs = {} /\ ~isLoading
    /\ NumCandidate(messages) = 2
    /\ messages[Len(messages)].role = "candidate"
    /\ currentMessage = messages[Len(messages)].content
    /\ FirstCandidate # LastCandidate

\* the class a status belongs to
StatusClass(st) ==
    IF st = "429" THEN "RateLimited"
    ELSE IF st = "401" THEN "Unauthorized"
    ELSE IF st = "400" THEN "BadInput"
    ELSE IF st \in {"500", "502", "503"} THEN "ServiceUnavailable"
    ELSE "UnknownTransportError"

\* the text transcribeAudio shows for a class, "" where it has none of its own
ClassText(class) ==
    IF class = "RateLimited" THEN "Too many requests. Please wait a moment and try again."
    ELSE IF class = "Unauthorized" THEN "Authentication error. Please refresh the page and try again."
    ELSE IF class = "BadInput" THEN "Audio format not supported. Please try recording again or use text input."
    ELSE IF class = "ServiceUnavailable" THEN "Server error. Please try again later or use text input."
    ELSE ""

\* C27: the message shown for a failed transcription response is the one of
\* the class of its status, the same for every 5xx status; a status of no
\* class gets none of the four class messages.
ClassifiedByStatusAlone ==
    [][\A tr \in DOMAIN transcriptions :
          (Mounted /\ TranscribeDone(tr) /\ transcriptions[tr].resp.status # "200") =>
             LET class == StatusClass(transcriptions[tr].resp.status)
             IN  IF ClassText(class) # ""
                 THEN recordingError' = ClassText(class)
                 ELSE \A k \in {"RateLimited", "Unauthorized", "BadInput", "ServiceUnavailable"} :
                         recordingError' # ClassText(k)]_vars

\* C28: a stopped recording whose own elapsed time reached 2 seconds and whose
\* payload is at least 1024 bytes is handed to transcribeAudio.
LongEnoughIsTranscribed ==
    [][\A r \in DOMAIN recorders :
          (/\ Mounted
           /\ RecorderOnStop(r)
           /\ recorders[r].elapsed >= MinStopSeconds
           /\ Bytes(recorders[r]) >= MinBytes) =>
             \E tr \in DOMAIN transcriptions' :
                /\ tr \notin DOMAIN transcriptions
                /\ transcriptions'[tr].phase = "sent"]_vars

\* the utterances whose synthesis or playback outlived an interrupt
Interrupted == {t \in DOMAIN plays : ~isProcessingAudio}

\* C29: when a synthesis or a playback completes, the item its finally block
\* removes from audioQueue is its own: the queue holds nothing enqueued after an
\* interrupt, because while an interrupted utterance is outstanding the
\* interviewer still counts as speaking and no response that would enqueue is
\* awaited.
LateCompletionDropsNothing ==
    [][/\ \A t \in DOMAIN plays :
             (/\ Mounted
              /\ TtsOkPlayRejected(t) \/ TtsFail(t) \/ AudioEnded(t) \/ AudioError(t)
              /\ audioQueue # <<>>) =>
                /\ isProcessingAudio
                /\ DOMAIN plays = {t}
                /\ Head(audioQueue) = plays[t].text
       /\ (Mounted /\ Interrupted # {}) =>
             /\ isSpeaking
             /\ audioQueue = <<>>
             /\ \A r \in engineReqs : ~r.audio]_vars

InterruptedSynthesisInFlight ==
    /\ Mounted /\ isAudioEnabled
    /\ \E t \in Interrupted : plays[t].phase = "tts"
    /\ NumCandidate(messages) >= 1

====
